---------------------------- MODULE Spec2Model ----------------------------
(***************************************************************************)
(* CarbonLens dashboard (src/app.py): the cached load-and-clean step and   *)
(* the four chart panels of one Streamlit session, as a state machine.     *)
(*                                                                         *)
(* A float is a pair <<n, d>>: the rational n/d in lowest terms with       *)
(* d > 0, NaN is <<0, 0>>, +inf is <<1, 0>> and -inf is <<-1, 0>>.         *)
(* A table is a sequence of rows (records); a row of the cleaned table     *)
(* keeps the line number it had in the file in the field "index", as a     *)
(* DataFrame keeps its index through filtering and sorting.                *)
(***************************************************************************)
EXTENDS Integers, Sequences, FiniteSets, TLC

VARIABLES file, cache, reads, pc, df, latest, viz, choices,
          top10_each, df_map, radar, melt

vars == <<file, cache, reads, pc, df, latest, viz, choices,
          top10_each, df_map, radar, melt>>

---------------------------------------------------------------------------
(* Float arithmetic (IEEE: NaN propagates, x/0 is inf or NaN).             *)

NaN == <<0, 0>>

Sign(n) == IF n > 0 THEN 1 ELSE IF n < 0 THEN -1 ELSE 0
Abs(n) == IF n < 0 THEN -n ELSE n

RECURSIVE GCD(_, _)
GCD(a, b) == IF b = 0 THEN a ELSE GCD(b, a % b)

Float(n, d) ==
  IF d = 0 THEN <<Sign(n), 0>>
  ELSE LET g == GCD(Abs(n), Abs(d))
           s == Sign(d)
       IN  <<(s * n) \div g, (s * d) \div g>>

Num(n) == <<n, 1>>
isna(x) == x = NaN
notna(x) == x # NaN
IsInf(x) == x[2] = 0 /\ x[1] # 0

FNeg(x) == <<-x[1], x[2]>>

FAdd(x, y) ==
  IF isna(x) \/ isna(y) THEN NaN
  ELSE IF IsInf(x) THEN (IF IsInf(y) /\ y[1] # x[1] THEN NaN ELSE x)
  ELSE IF IsInf(y) THEN y
  ELSE Float(x[1] * y[2] + y[1] * x[2], x[2] * y[2])

FSub(x, y) == FAdd(x, FNeg(y))

FMul(x, y) ==
  IF isna(x) \/ isna(y) THEN NaN
  ELSE IF IsInf(x) \/ IsInf(y)
       THEN Float(Sign(x[1]) * Sign(y[1]), 0)
  ELSE Float(x[1] * y[1], x[2] * y[2])

FDiv(x, y) ==
  IF isna(x) \/ isna(y) THEN NaN
  ELSE IF IsInf(x) THEN (IF IsInf(y) THEN NaN
                         ELSE IF y[1] < 0 THEN FNeg(x) ELSE x)
  ELSE IF IsInf(y) THEN Num(0)
  ELSE Float(x[1] * y[2], x[2] * y[1])

\* x <= y; false as soon as one side is NaN.
FLe(x, y) ==
  /\ notna(x) /\ notna(y)
  /\ IF IsInf(x) /\ IsInf(y) THEN x[1] <= y[1]
     ELSE x[1] * y[2] <= y[1] * x[2]

FLt(x, y) == FLe(x, y) /\ x # y

---------------------------------------------------------------------------
(* The input file.                                                         *)

MeasureCols == {"co2", "co2_per_capita", "gdp", "population", "coal_co2",
                "oil_co2", "gas_co2", "flaring_co2", "cement_co2"}

SourceCols == <<"coal_co2", "oil_co2", "gas_co2", "flaring_co2", "cement_co2">>

\* A measure field of the file: a number, an empty field, or other text.
N(n) == <<"num", n>>
Empty == <<"na", 0>>
Text == <<"text", 0>>

\* The country names the model draws from, in the order of string comparison.
CountryOrder == <<"Aruba", "Brazil", "China", "Germany", "India", "Japan",
                  "Kenya", "Mexico", "Norway", "Peru", "Qatar",
                  "United States">>

CountryRank(c) == CHOOSE i \in 1..Len(CountryOrder) : CountryOrder[i] = c

IsoOf(c) == CASE c = "Aruba" -> "ABW" [] c = "Brazil" -> "BRA"
              [] c = "China" -> "CHN" [] c = "Germany" -> "DEU"
              [] c = "India" -> "IND" [] c = "Japan" -> "JPN"
              [] c = "Kenya" -> "KEN" [] c = "Mexico" -> "MEX"
              [] c = "Norway" -> "NOR" [] c = "Peru" -> "PER"
              [] c = "Qatar" -> "QAT" [] OTHER -> "USA"

\* One line of the file; m gives the measure fields, the others are empty.
Line(iso, c, y, m) ==
  [col \in MeasureCols |-> IF col \in DOMAIN m THEN m[col] ELSE Empty]
    @@ [iso_code |-> iso, country |-> c, year |-> y]

---------------------------------------------------------------------------
(* 1. Load & clean (load_data).                                            *)

\* read_csv: an empty iso_code field is missing; .str.len() of it is NaN.
str_len(s) == IF s = "" THEN NaN ELSE Num(Len(s))

\* A faulty variant of KeepRow: codes of 3 characters or more are kept.
KeepRow_AtLeast3(r) == FLe(Num(3), str_len(r.iso_code))

KeepRow(r) == str_len(r.iso_code) = Num(3)

\* pd.to_numeric(errors='coerce'): what does not parse becomes NaN.
to_numeric(cell) == IF cell[1] = "num" THEN Num(cell[2]) ELSE NaN

\* Lines 8-13: read, keep the rows with a 3-character code, coerce.
read_csv(f) ==
  [i \in 1..Len(f) |->
     [col \in MeasureCols |-> to_numeric(f[i][col])]
       @@ [iso_code |-> f[i].iso_code, country |-> f[i].country,
           year |-> f[i].year, index |-> i]]

filter_iso(t) == SelectSeq(t, KeepRow)

\* r sorts strictly before q by (country, year).
RowLt(r, q) ==
  \/ CountryRank(r.country) < CountryRank(q.country)
  \/ r.country = q.country /\ r.year < q.year

\* Line 14: sort_values(['country','year']), stable: insertion sort.
RECURSIVE Insert(_, _)
Insert(s, r) ==
  IF s = <<>> THEN <<r>>
  ELSE IF RowLt(r, s[Len(s)]) THEN Append(Insert(SubSeq(s, 1, Len(s) - 1), r), s[Len(s)])
  ELSE Append(s, r)

RECURSIVE sort_values(_)
sort_values(t) ==
  IF t = <<>> THEN <<>>
  ELSE Insert(sort_values(SubSeq(t, 1, Len(t) - 1)), t[Len(t)])

\* The table as it stands before the fill of lines 15-20.
prepare(f) == sort_values(filter_iso(read_csv(f)))

\* Nearest position before / after p holding a value, 0 when there is none.
PrevValid(s, p) ==
  LET c == {i \in 1..(p - 1) : notna(s[i])}
  IN  IF c = {} THEN 0 ELSE CHOOSE i \in c : \A j \in c : j <= i

NextValid(s, p) ==
  LET c == {i \in (p + 1)..Len(s) : notna(s[i])}
  IN  IF c = {} THEN 0 ELSE CHOOSE i \in c : \A j \in c : i <= j

\* Series.interpolate(): method 'linear' takes the values as equally spaced
\* (the index is ignored), limit_direction 'forward': a gap after the last
\* value takes that value, a gap before the first value stays.
interpolate(s) ==
  [p \in 1..Len(s) |->
     IF notna(s[p]) THEN s[p]
     ELSE LET i == PrevValid(s, p)
              j == NextValid(s, p)
          IN  IF i = 0 THEN NaN
              ELSE IF j = 0 THEN s[i]
              ELSE FAdd(s[i], FDiv(FMul(FSub(s[j], s[i]), Num(p - i)),
                                   Num(j - i)))] \o <<>>

ffill(s) ==
  [p \in 1..Len(s) |->
     IF notna(s[p]) THEN s[p]
     ELSE IF PrevValid(s, p) = 0 THEN NaN ELSE s[PrevValid(s, p)]] \o <<>>

bfill(s) ==
  [p \in 1..Len(s) |->
     IF notna(s[p]) THEN s[p]
     ELSE IF NextValid(s, p) = 0 THEN NaN ELSE s[NextValid(s, p)]] \o <<>>

\* A faulty variant of fill_series: the backward fill is left out.
fill_series_NoBfill(s) == ffill(interpolate(s))

\* Line 19: the lambda of the transform.
fill_series(s) == bfill(ffill(interpolate(s)))

\* A faulty variant of GroupIdx: the table is not grouped, every row is in the series.
GroupIdx_Ungrouped(t, c) == [n \in 1..Len(t) |-> n]

\* groupby('country'): the positions of the rows of country c, in order.
GroupIdx(t, c) ==
  LET F[n \in 0..Len(t)] ==
        IF n = 0 THEN <<>>
        ELSE IF t[n].country = c THEN Append(F[n - 1], n) ELSE F[n - 1]
  IN  F[Len(t)]

\* Position of x in the sequence s.
PosIn(s, x) == CHOOSE k \in 1..Len(s) : s[k] = x

\* Lines 15-20: every measure column, per country, filled.
transform(t) ==
  LET countries == {t[k].country : k \in 1..Len(t)}
      idx == [c \in countries |-> GroupIdx(t, c)]
      filled == [c \in countries |->
                   [col \in MeasureCols |->
                      fill_series([m \in 1..Len(idx[c]) |-> t[idx[c][m]][col]])]]
  IN  [k \in 1..Len(t) |->
         LET c == t[k].country
             m == PosIn(idx[c], k)
         IN  [col \in MeasureCols |-> filled[c][col][m]]
               @@ [iso_code |-> t[k].iso_code, country |-> c,
                   year |-> t[k].year, index |-> t[k].index]]

load_data(f) == transform(prepare(f))

\* st.cache_data: the function body runs on the first call only; every later
\* call of the session returns a copy of the stored table.
NoCache == [set |-> FALSE, value |-> <<>>]

\* A faulty variant of load_data_cached: the function body runs on every call.
load_data_cached_NoCache(c, f) == [value |-> load_data(f), read |-> 1]

load_data_cached(c, f) ==
  IF c.set THEN [value |-> c.value, read |-> 0]
  ELSE [value |-> load_data(f), read |-> 1]

\* Maximum of a set of integers.
MaxOf(S) == CHOOSE m \in S : \A x \in S : x <= m

\* Series.max(): NaN is skipped, NaN when nothing is left.
col_max(t, col) ==
  LET vals == {t[k][col] : k \in 1..Len(t)} \ {NaN}
  IN  IF vals = {} THEN NaN ELSE CHOOSE m \in vals : \A x \in vals : FLe(x, m)

\* Series.sum(): NaN is skipped, 0 when nothing is left.
RECURSIVE col_sum(_, _)
col_sum(t, col) ==
  IF t = <<>> THEN Num(0)
  ELSE LET rest == col_sum(Tail(t), col)
       IN  IF isna(t[1][col]) THEN rest ELSE FAdd(t[1][col], rest)

\* t without its k-th row.
Remove(t, k) == SubSeq(t, 1, k - 1) \o SubSeq(t, k + 1, Len(t))

\* A faulty variant of nlargest: the first n rows in table order.
nlargest_Head(n, t, col) == SubSeq(t, 1, IF n < Len(t) THEN n ELSE Len(t))

\* DataFrame.nlargest(n, col), keep='first': the rows in descending order of
\* col, equal values in table order, rows with NaN only after all the others.
RECURSIVE nlargest(_, _, _)
nlargest(n, t, col) ==
  IF n = 0 \/ t = <<>> THEN <<>>
  ELSE LET valid == {i \in 1..Len(t) : notna(t[i][col])}
           best == IF valid = {} THEN 1
                   ELSE CHOOSE i \in valid : \A j \in valid :
                          /\ FLe(t[j][col], t[i][col])
                          /\ t[j][col] = t[i][col] => i <= j
       IN  <<t[best]>> \o nlargest(n - 1, Remove(t, best), col)

---------------------------------------------------------------------------
(* 1. Bar-Chart Race.                                                      *)

TopN == 10

Years(t) == {t[k].year : k \in 1..Len(t)}

\* The elements of a set of integers in ascending order.
RECURSIVE Ascending(_)
Ascending(S) ==
  IF S = {} THEN <<>>
  ELSE LET m == MaxOf(S) IN Append(Ascending(S \ {m}), m)

\* The countries of t in the order of their names.
CountriesOf(t) ==
  LET ranks == Ascending({CountryRank(t[k].country) : k \in 1..Len(t)})
  IN  [i \in 1..Len(ranks) |-> CountryOrder[ranks[i]]]

\* Line 40: groupby(['year','country'], as_index=False)['co2'].sum(), the
\* groups of one year y, in the order of the country names.
annual_of(t, y) ==
  LET rows == SelectSeq(t, LAMBDA r : r.year = y)
      cs == CountriesOf(rows)
  IN  [i \in 1..Len(cs) |->
         [year |-> y, country |-> cs[i],
          co2 |-> col_sum(SelectSeq(rows, LAMBDA r : r.country = cs[i]), "co2")]]

\* Lines 41-42: per year, the TopN largest; the years in ascending order.
RECURSIVE concat_years(_, _)
concat_years(t, ys) ==
  IF ys = <<>> THEN <<>>
  ELSE nlargest(TopN, annual_of(t, ys[1]), "co2") \o concat_years(t, Tail(ys))

top10(t) == concat_years(t, Ascending(Years(t)))

\* Line 45: range_x = [0, top10_each['co2'].max() * 1.05].
range_x(t) == <<Num(0), FMul(col_max(t, "co2"), Float(105, 100))>>

---------------------------------------------------------------------------
(* 2. Bubble Map.                                                          *)

BubbleScale == 60
BubbleBase == 5

\* Line 55: dropna(subset=['co2_per_capita','co2']).
dropna(t, subset) == SelectSeq(t, LAMBDA r : \A col \in subset : notna(r[col]))

\* Line 56: (co2 / co2.max()) * 60 + 5.
bubble_size(x, m) == FAdd(FMul(FDiv(x, m), Num(BubbleScale)), Num(BubbleBase))

bubble_map(t) ==
  LET d == dropna(t, {"co2_per_capita", "co2"})
      m == col_max(d, "co2")
  IN  [k \in 1..Len(d) |-> d[k] @@ [bubble_size |-> bubble_size(d[k].co2, m)]]

---------------------------------------------------------------------------
(* 3. Country Radar.                                                       *)

Metrics == {"population", "gdp_per_capita", "co2", "co2_per_capita"}

RadarDefault == {"United States", "China", "India"}

\* Lines 71-74: the latest year's complete rows, with gdp per capita.
radar_rows(t, y) ==
  LET d == dropna(SelectSeq(t, LAMBDA r : r.year = y),
                  {"co2", "co2_per_capita", "gdp", "population"})
  IN  [k \in 1..Len(d) |->
         d[k] @@ [gdp_per_capita |-> FDiv(d[k].gdp, d[k].population)]]

\* Line 79: the options of the country selector.
radar_options(t, y) == {r.country : r \in {radar_rows(t, y)[k] : k \in 1..Len(radar_rows(t, y))}}

\* Lines 85-86: every metric of the chosen countries over the metric's
\* maximum in the whole latest-year table (rows kept in table order).
normalise(d, chosen) ==
  LET norm == [m \in Metrics |-> col_max(d, m)]
      sel == SelectSeq(d, LAMBDA r : r.country \in chosen)
  IN  [k \in 1..Len(sel) |->
         [m \in Metrics |-> FDiv(sel[k][m], norm[m])]
           @@ [country |-> sel[k].country]]

---------------------------------------------------------------------------
(* 4. Source Sunburst.                                                     *)

TopCountries == 5

\* Lines 127-130: '_co2' removed, then title case.
SourceLabel(col) == CASE col = "coal_co2" -> "Coal" [] col = "oil_co2" -> "Oil"
                      [] col = "gas_co2" -> "Gas"
                      [] col = "flaring_co2" -> "Flaring"
                      [] OTHER -> "Cement"

\* Line 118: the countries of the TopCountries rows with the largest co2.
top5(d) ==
  LET n == nlargest(TopCountries, d, "co2")
  IN  {n[k].country : k \in 1..Len(n)}

\* Lines 117-130: one (country, source, emissions) row per source column and
\* per latest-year row of a top country, column by column.
RECURSIVE melt_cols(_, _)
melt_cols(d, cols) ==
  IF cols = <<>> THEN <<>>
  ELSE [k \in 1..Len(d) |->
          [country |-> d[k].country, source |-> SourceLabel(cols[1]),
           emissions |-> d[k][cols[1]]]] \o melt_cols(d, Tail(cols))

sunburst(t, y) ==
  LET df5 == SelectSeq(t, LAMBDA r : r.year = y)
      top == top5(df5)
  IN  melt_cols(SelectSeq(df5, LAMBDA r : r.country \in top), SourceCols)

---------------------------------------------------------------------------
(* The session: one render pass is the script run top to bottom.           *)

Panels == {"Bar-Chart Race", "Bubble Map", "Country Radar", "Source Sunburst"}

NotShown == [shown |-> "no", data |-> <<>>, extra |-> {}]

Shown(kind, d, x) == [shown |-> kind, data |-> d, extra |-> x]

\* The page is on screen and the viewer can act on it.
Idle == pc \in {"done", "aborted"}

\* Lines 23-24: df = load_data(); latest = int(df['year'].max()), which
\* raises on an empty table (the maximum is NaN).
LoadData ==
  /\ pc = "load"
  /\ \E res \in {load_data_cached(cache, file)} :
       /\ cache' = [set |-> TRUE, value |-> res.value]
       /\ reads' = reads + res.read
       /\ df' = res.value
       /\ IF res.value = <<>>
          THEN latest' = 0 /\ pc' = "aborted"
          ELSE latest' = MaxOf(Years(res.value)) /\ pc' = "bar"
  /\ top10_each' = NotShown /\ df_map' = NotShown
  /\ radar' = NotShown /\ melt' = NotShown
  /\ UNCHANGED <<file, viz, choices>>

\* Lines 37-50.
BarChartRace ==
  /\ pc = "bar"
  /\ pc' = "bubble"
  /\ top10_each' = IF "Bar-Chart Race" \in viz
                   THEN Shown("chart", top10(df), {range_x(top10(df))})
                   ELSE NotShown
  /\ UNCHANGED <<file, cache, reads, df, latest, viz, choices, df_map, radar, melt>>

\* Lines 53-65: the size column is set on the new table dropna returns.
BubbleMap ==
  /\ pc = "bubble"
  /\ pc' = "radar"
  /\ df_map' = IF "Bubble Map" \in viz
               THEN Shown("chart", bubble_map(df), {})
               ELSE NotShown
  /\ UNCHANGED <<file, cache, reads, df, latest, viz, choices, top10_each, radar, melt>>

\* A faulty variant of CountryRadar: an empty selection stops the script.
CountryRadar_StopOnEmpty ==
  /\ pc = "radar"
  /\ IF "Country Radar" \notin viz
     THEN radar' = NotShown /\ pc' = "sunburst"
     ELSE LET d == radar_rows(df, latest)
              options == radar_options(df, latest)
          IN  IF ~(RadarDefault \subseteq options)
              THEN radar' = Shown("exception", <<>>, options) /\ pc' = "aborted"
              ELSE IF choices # {}
              THEN radar' = Shown("chart", normalise(d, choices), options) /\ pc' = "sunburst"
              ELSE radar' = Shown("info", <<>>, options) /\ pc' = "aborted"
  /\ UNCHANGED <<file, cache, reads, df, latest, viz, choices, top10_each, df_map, melt>>

\* Lines 68-112. st.multiselect raises when a default is not among the
\* options, which ends the pass; otherwise it returns the viewer's selection.
CountryRadar ==
  /\ pc = "radar"
  /\ IF "Country Radar" \notin viz
     THEN radar' = NotShown /\ pc' = "sunburst"
     ELSE LET d == radar_rows(df, latest)
              options == radar_options(df, latest)
          IN  IF ~(RadarDefault \subseteq options)
              THEN radar' = Shown("exception", <<>>, options) /\ pc' = "aborted"
              ELSE /\ radar' = IF choices # {}
                               THEN Shown("chart", normalise(d, choices), options)
                               ELSE Shown("info", <<>>, options)
                   /\ pc' = "sunburst"
  /\ UNCHANGED <<file, cache, reads, df, latest, viz, choices, top10_each, df_map, melt>>

\* Lines 115-137.
SourceSunburst ==
  /\ pc = "sunburst"
  /\ pc' = "done"
  /\ melt' = IF "Source Sunburst" \in viz
             THEN Shown("chart", sunburst(df, latest), {})
             ELSE NotShown
  /\ UNCHANGED <<file, cache, reads, df, latest, viz, choices, top10_each, df_map, radar>>

\* The file on disk is replaced while the session runs.
FileChange(f) ==
  /\ f # file
  /\ file' = f
  /\ UNCHANGED <<cache, reads, pc, df, latest, viz, choices, top10_each, df_map, radar, melt>>

\* Lines 30-34: the viewer changes the sidebar selection, which reruns the
\* script. The sidebar exists once a pass got beyond line 24.
SetViz(v) ==
  /\ Idle /\ df # <<>>
  /\ v # viz
  /\ viz' = v
  /\ pc' = "load"
  /\ UNCHANGED <<file, cache, reads, df, latest, choices, top10_each, df_map, radar, melt>>

\* Lines 77-81: the viewer changes the country selection of the radar.
SetChoices(c) ==
  /\ Idle /\ radar.shown \in {"chart", "info"}
  /\ c \subseteq radar.extra /\ c # choices
  /\ choices' = c
  /\ pc' = "load"
  /\ UNCHANGED <<file, cache, reads, df, latest, viz, top10_each, df_map, radar, melt>>

\* The viewer reruns the script with the selections as they are.
Rerun ==
  /\ Idle
  /\ pc' = "load"
  /\ UNCHANGED <<file, cache, reads, df, latest, viz, choices, top10_each, df_map, radar, melt>>

Pass == LoadData \/ BarChartRace \/ BubbleMap \/ CountryRadar \/ SourceSunburst

InitSession(f, v, c) ==
  /\ file = f /\ cache = NoCache /\ reads = 0
  /\ pc = "load" /\ df = <<>> /\ latest = 0
  /\ viz = v /\ choices = c
  /\ top10_each = NotShown /\ df_map = NotShown
  /\ radar = NotShown /\ melt = NotShown

---------------------------------------------------------------------------
(* Cleaning checked on its own: the files of SpecClean.                    *)

MaxRows == 3

CleanYears == {2000, 2001, 2002, 2004}

CleanCells == {Empty, Text, N(10), N(30)}

\* The strictly increasing sequences over S of length 1..n.
IncSeqs(S, n) ==
  {s \in UNION {[1..k -> S] : k \in 1..n} : \A i \in 1..(Len(s) - 1) : s[i] < s[i + 1]}

Reverse(s) == [i \in 1..Len(s) |-> s[Len(s) + 1 - i]]

\* China's lines: co2 as drawn, gdp the same cells in reverse order, one
\* column with a value in every line and one with text in every line.
ChinaLines(ys, cells, iso2) ==
  [i \in 1..Len(ys) |->
     Line(IF i = 2 THEN iso2 ELSE "CHN", "China", ys[i],
          [co2 |-> cells[i], gdp |-> cells[Len(ys) + 1 - i],
           coal_co2 |-> cells[i], co2_per_capita |-> N(1),
           population |-> Text])]

IndiaLines(b) ==
  <<Line("IND", "India", 2000, [co2 |-> b[1], gdp |-> N(50)]),
    Line("IND", "India", 2001, [co2 |-> b[2], gdp |-> Empty])>>

FillFiles ==
  {IF rev THEN Reverse(ChinaLines(ys, cells, iso2) \o IndiaLines(b))
          ELSE ChinaLines(ys, cells, iso2) \o IndiaLines(b) :
     <<ys, cells, iso2, b, rev>> \in
       {x \in UNION {{ys} \X [1..Len(ys) -> CleanCells] \X {"CHN", ""}
                       \X [1..2 -> {Empty, N(50)}] \X BOOLEAN :
                     ys \in IncSeqs(CleanYears, MaxRows)} : TRUE}}

FilterLines ==
  {Line(iso, c, y, [co2 |-> N(7), gdp |-> Text]) :
     <<iso, c, y>> \in {"CHN", "", "CN", "OWID_WRL"} \X {"China", "Aruba"}
                        \X {2000, 2001}}

FilterFiles == UNION {[1..k -> FilterLines] : k \in 0..2}

InitClean == \E f \in FillFiles \cup FilterFiles : InitSession(f, Panels, RadarDefault)

SpecClean == InitClean /\ [][LoadData]_vars

\* The table before the fill, in the row order of df.
Prepared == prepare(file)

\* The rows of country c that hold a value in column col before the fill.
Known(p, c, col) == {j \in 1..Len(p) : p[j].country = c /\ notna(p[j][col])}

\* C1: after load_data, a country with at least one value in a measure
\* column has no missing value left in that column.
C1_NoMissingAfterFill ==
  pc # "load" =>
    LET p == Prepared
    IN  \A k \in 1..Len(df), col \in MeasureCols :
          Known(p, df[k].country, col) # {} => notna(df[k][col])

\* A gap before a country's first value was there and is filled.
C1_Witness ==
  /\ pc # "load"
  /\ LET p == Prepared
     IN  \E k \in 1..Len(df) :
           /\ isna(p[k].co2) /\ notna(df[k].co2)
           /\ \A j \in Known(p, p[k].country, "co2") : k < j

\* C2: one missing row between two known rows takes the value of the line
\* through the two known points over the years, whatever the spacing.
C2_LinearOverYears ==
  pc # "load" =>
    LET p == Prepared
    IN  \A k \in 1..(Len(df) - 2), col \in MeasureCols :
          ( /\ p[k].country = p[k + 1].country
            /\ p[k].country = p[k + 2].country
            /\ p[k].year < p[k + 1].year /\ p[k + 1].year < p[k + 2].year
            /\ notna(p[k][col]) /\ isna(p[k + 1][col]) /\ notna(p[k + 2][col]) )
          => df[k + 1][col] =
               FAdd(p[k][col],
                    FDiv(FMul(FSub(p[k + 2][col], p[k][col]),
                              Num(p[k + 1].year - p[k].year)),
                         Num(p[k + 2].year - p[k].year)))

\* C3: a row missing before the country's first value takes that value, one
\* missing after its last value takes that one; a filled value lies between
\* two known values of the same country, and a country without any value in
\* a column takes none from its neighbours.
C3_BoundaryFill ==
  pc # "load" =>
    LET p == Prepared
    IN  \A k \in 1..Len(df), col \in MeasureCols :
          isna(p[k][col]) =>
            LET own == Known(p, p[k].country, col)
            IN  IF own = {} THEN isna(df[k][col])
                ELSE /\ (\A j \in own : k < j) =>
                          df[k][col] = p[CHOOSE j \in own : \A i \in own : j <= i][col]
                     /\ (\A j \in own : j < k) =>
                          df[k][col] = p[MaxOf(own)][col]
                     /\ \E lo \in own, hi \in own :
                          FLe(p[lo][col], df[k][col]) /\ FLe(df[k][col], p[hi][col])

\* India's first row is missing and filled, right after a row of China that
\* holds a value; China's last row is missing and filled before India's.
C3_Witness ==
  /\ pc # "load"
  /\ LET p == Prepared
     IN  \E k \in 2..Len(df) :
           /\ p[k - 1].country # p[k].country
           /\ isna(p[k].co2) /\ notna(df[k].co2) /\ notna(p[k - 1].co2)
           /\ \A j \in Known(p, p[k].country, "co2") : k < j
           /\ \E m \in 1..(k - 1) :
                /\ isna(p[m].gdp) /\ notna(df[m].gdp)
                /\ \A j \in Known(p, p[m].country, "gdp") : j < m

\* C4: the cleaned table holds exactly the lines whose iso_code has 3
\* characters, in (country, year) order, whatever their measures hold, and a
\* numeric measure of the file is the measure of the cleaned row.
C4_RowsKeptSortedUnchanged ==
  pc # "load" =>
    LET kept == {i \in 1..Len(file) :
                   file[i].iso_code # "" /\ Len(file[i].iso_code) = 3}
    IN  /\ {df[k].index : k \in 1..Len(df)} = kept
        /\ Len(df) = Cardinality(kept)
        /\ \A k \in 1..Len(df) :
             /\ df[k].country = file[df[k].index].country
             /\ df[k].year = file[df[k].index].year
             /\ \A col \in MeasureCols :
                  file[df[k].index][col][1] = "num" =>
                    df[k][col] = Num(file[df[k].index][col][2])
        /\ \A k \in 1..(Len(df) - 1) :
             \/ CountryRank(df[k].country) < CountryRank(df[k + 1].country)
             \/ /\ df[k].country = df[k + 1].country
                /\ df[k].year <= df[k + 1].year

\* A file out of order with a line of a longer code and a line without code
\* dropped, and a kept line whose co2 is text.
C4_Witness ==
  /\ pc # "load"
  /\ Len(df) >= 3 /\ Len(df) < Len(file)
  /\ \E i \in 1..Len(file) : file[i].iso_code = ""
  /\ \E k \in 1..Len(df) : file[df[k].index].co2 = Text
  /\ \E k \in 1..(Len(df) - 1) : df[k + 1].index < df[k].index

---------------------------------------------------------------------------
(* The bar race checked on files with more countries than bars.            *)

BarCountries == 11

BarCells == {Empty, N(1), N(2)}

\* One line per country for 2020: the first five countries draw their co2
\* one by one, the others in pairs; the first n19 also have a 2019 line.
BarFile(a, b, n19) ==
  [i \in 1..BarCountries |->
     Line(IsoOf(CountryOrder[i]), CountryOrder[i], 2020,
          [co2 |-> IF i <= 5 THEN a[i] ELSE b[1 + (i % 3)]])]
  \o [i \in 1..n19 |->
        Line(IsoOf(CountryOrder[i]), CountryOrder[i], 2019, [co2 |-> N(3)])]

BarFiles ==
  {BarFile(x[1], x[2], x[3]) :
     x \in [1..5 -> BarCells] \X [1..3 -> BarCells] \X {0, 2}}

InitBar == \E f \in BarFiles : InitSession(f, Panels, RadarDefault)

SpecBar == InitBar /\ [][LoadData \/ BarChartRace]_vars

\* The countries of the frame of year y, and the rows the frame draws.
Frame(y) == SelectSeq(top10_each.data, LAMBDA r : r.year = y)

FrameCountries(y) == {Frame(y)[k].country : k \in 1..Len(Frame(y))}

\* The total co2 of country c in year y of the cleaned table.
Total(c, y) == col_sum(SelectSeq(df, LAMBDA r : r.year = y /\ r.country = c), "co2")

\* C6: every year's frame holds at most 10 countries, all of them when the
\* year has fewer, and no country left out has a larger total than one shown.
C6_TopTenPerYear ==
  (pc \notin {"load", "bar"} /\ top10_each.shown = "chart") =>
    \A y \in Years(df) :
      LET all == {df[k].country : k \in {j \in 1..Len(df) : df[j].year = y}}
          shown == FrameCountries(y)
      IN  /\ Cardinality(shown) <= 10
          /\ Len(Frame(y)) = Cardinality(shown)
          /\ shown \subseteq all
          /\ Cardinality(shown) = IF Cardinality(all) < 10 THEN Cardinality(all) ELSE 10
          /\ \A r \in shown, q \in all \ shown : FLe(Total(q, y), Total(r, y))
          /\ \A k \in 1..Len(Frame(y)) : Frame(y)[k].co2 = Total(Frame(y)[k].country, y)

\* A year with more than 10 countries, one left out with the same total as
\* one shown, and a country without any co2; another year with fewer than 10.
C6_Witness ==
  /\ pc = "bubble" /\ top10_each.shown = "chart"
  /\ \E y \in Years(df) :
       LET all == {df[k].country : k \in {j \in 1..Len(df) : df[j].year = y}}
       IN  /\ Cardinality(all) > 10
           /\ \E r \in FrameCountries(y), q \in all \ FrameCountries(y) :
                Total(q, y) = Total(r, y)
           /\ \E k \in 1..Len(df) : df[k].year = y /\ isna(df[k].co2)
  /\ \E y \in Years(df) : Cardinality(FrameCountries(y)) < 10

---------------------------------------------------------------------------
(* The sunburst checked on files with more countries than it shows.        *)

SunCountries == 6

\* A line that reports the total and all five sources (coal as given, the
\* other four 0).
Complete(c, y, total, coal) ==
  Line(IsoOf(c), c, y,
       [co2 |-> N(total), coal_co2 |-> N(coal), oil_co2 |-> N(0),
        gas_co2 |-> N(0), flaring_co2 |-> N(0), cement_co2 |-> N(0)])

\* Every country but the third has one complete line for 2020; the third
\* has a complete line for 2019 and a 2020 line with the cells drawn.
SunFile(tot, t19, c19, t20, c20, rest) ==
  [i \in 1..SunCountries |->
     IF i = 3
     THEN Line(IsoOf(CountryOrder[i]), CountryOrder[i], 2020,
               [co2 |-> t20, coal_co2 |-> c20, oil_co2 |-> rest,
                gas_co2 |-> rest, flaring_co2 |-> rest, cement_co2 |-> rest])
     ELSE Complete(CountryOrder[i], 2020, tot[1 + (i % 3)], 1)]
  \o <<Complete(CountryOrder[3], 2019, t19, c19)>>

SunFiles ==
  {SunFile(x[1], x[2], x[3], x[4], x[5], x[6]) :
     x \in [1..3 -> {1, 5}] \X {4, 8} \X {2, 4, 8} \X {Empty, N(2), N(8)}
           \X {Empty, N(1)} \X {Empty, N(0)}}

InitSun ==
  \E f \in SunFiles, v \in {{"Source Sunburst"}, {"Bar-Chart Race", "Bubble Map", "Source Sunburst"}} :
    InitSession(f, v, RadarDefault)

SpecSun == InitSun /\ [][Pass]_vars

\* The countries the sunburst shows.
SunShown == {melt.data[k].country : k \in 1..Len(melt.data)}

\* The latest-year rows of the cleaned table.
LatestRows == SelectSeq(df, LAMBDA r : r.year = latest)

\* Every line of the file that reports the total and all five sources has
\* sources that sum to no more than the total.
FileRespectsTotal ==
  \A i \in 1..Len(file) :
    (file[i].co2[1] = "num" /\ \A k \in 1..5 : file[i][SourceCols[k]][1] = "num")
    => file[i].coal_co2[2] + file[i].oil_co2[2] + file[i].gas_co2[2]
         + file[i].flaring_co2[2] + file[i].cement_co2[2] <= file[i].co2[2]

\* The countries shown are the (at most) 5 of the latest year with the
\* largest co2.
SunShowsTopFive ==
  LET all == {LatestRows[k].country : k \in 1..Len(LatestRows)}
  IN  /\ SunShown \subseteq all
      /\ Cardinality(SunShown) = IF Cardinality(all) < 5 THEN Cardinality(all) ELSE 5
      /\ \A k \in 1..Len(LatestRows), j \in 1..Len(LatestRows) :
           (LatestRows[k].country \in SunShown /\ LatestRows[j].country \notin SunShown)
           => (isna(LatestRows[j].co2) \/ FLe(LatestRows[j].co2, LatestRows[k].co2))

\* C10: the sunburst shows the 5 countries with the largest co2 of the latest
\* year, and for each the five source values shown sum to no more than the
\* country's co2 of that year, when the file's complete lines respect that.
C10_SourcesWithinTotal ==
  (pc = "done" /\ melt.shown = "chart" /\ FileRespectsTotal) =>
    /\ SunShowsTopFive
    /\ \A k \in 1..Len(LatestRows) :
         (LatestRows[k].country \in SunShown /\ notna(LatestRows[k].co2)) =>
           FLe(col_sum(SelectSeq(melt.data,
                        LAMBDA m : m.country = LatestRows[k].country), "emissions"),
               LatestRows[k].co2)

---------------------------------------------------------------------------
(* The session: passes, viewer selections, and the file changing on disk.  *)

\* Four countries and a world aggregate. zero: every co2 figure is 0;
\* uspop: the population of the United States; ingdp: India's gdp.
SessionFile(zero, uspop, ingdp) ==
  LET c(n) == IF zero THEN N(0) ELSE N(n)
  IN  <<Line("OWID_WRL", "World", 2020, [co2 |-> N(100), co2_per_capita |-> N(4)]),
        Line("USA", "United States", 2020,
             [co2 |-> c(15), co2_per_capita |-> c(3), gdp |-> N(6), population |-> uspop]),
        Line("IND", "India", 2020,
             [co2 |-> c(10), co2_per_capita |-> c(1), gdp |-> ingdp, population |-> N(4)]),
        Line("CHN", "China", 2020,
             [co2 |-> c(20), co2_per_capita |-> c(2), gdp |-> N(8), population |-> N(4)]),
        Line("ABW", "Aruba", 2020,
             [co2 |-> Empty, co2_per_capita |-> Text, gdp |-> N(1), population |-> N(1)]),
        Line("ABW", "Aruba", 2019,
             [co2 |-> c(5), co2_per_capita |-> c(5), gdp |-> N(1), population |-> N(1)])>>

SessionFiles ==
  {SessionFile(x[1], x[2], x[3]) : x \in BOOLEAN \X {N(0), N(2)} \X {Empty, N(4)}}

Init == \E f \in SessionFiles : InitSession(f, Panels, RadarDefault)

Next ==
  \/ Pass
  \/ \E v \in SUBSET Panels : SetViz(v)
  \/ \E c \in SUBSET {"Aruba", "China", "India", "United States"} : SetChoices(c)
  \/ Rerun
  \/ \E f \in SessionFiles : FileChange(f)

Spec == Init /\ [][Next]_vars

\* C5: the file is read and cleaned at most once; the table stored on the
\* first pass is never replaced or changed, by no panel and no later pass,
\* and it is the table every pass works on.
C5_LoadedOnceNeverChanged ==
  [][ /\ reads' <= 1
      /\ cache.set => cache' = cache
      /\ cache'.set => df' = cache'.value ]_vars

\* A later pass has drawn the bubble map and the radar from the stored table
\* after the file on disk changed to one that cleans to another table.
C5_Witness ==
  /\ pc = "done" /\ reads = 1 /\ viz # Panels
  /\ df_map.shown = "chart" /\ radar.shown = "chart"
  /\ load_data(file) # cache.value

\* C7: every plotted radar value is the country's latest-year value over the
\* metric's maximum among all countries of the latest-year table, and lies
\* in [0, 1] when that table holds no negative measure.
C7_RadarWithinUnit ==
  ( /\ pc \in {"sunburst", "done"} /\ radar.shown = "chart"
    /\ \A k \in 1..Len(LatestRows), col \in MeasureCols :
         isna(LatestRows[k][col]) \/ FLe(Num(0), LatestRows[k][col]) )
  => LET d == radar_rows(df, latest)
     IN  \A k \in 1..Len(radar.data), m \in Metrics :
           /\ radar.data[k].country \in choices
           /\ \E j \in 1..Len(d) :
                /\ d[j].country = radar.data[k].country
                /\ radar.data[k][m] = FDiv(d[j][m], col_max(d, m))
           /\ FLe(Num(0), radar.data[k][m]) /\ FLe(radar.data[k][m], Num(1))

\* C8: with the radar active and no country selected the message is shown
\* and no chart, the pass is not aborted, and the other panels of the pass
\* are what the table and the sidebar selection alone determine; with a
\* country selected the chart is drawn and the message is not shown.
C8_EmptySelectionMessage ==
  /\ ("Country Radar" \in viz /\ choices = {}) =>
       /\ pc # "aborted"
       /\ pc \in {"sunburst", "done"} => (radar.shown = "info" /\ radar.data = <<>>)
  /\ ("Country Radar" \in viz /\ choices # {} /\ pc \in {"sunburst", "done"}) =>
       (radar.shown = "chart" /\ Len(radar.data) = Cardinality(choices))
  /\ pc = "done" =>
       /\ top10_each = IF "Bar-Chart Race" \in viz
                       THEN Shown("chart", top10(df), {range_x(top10(df))})
                       ELSE NotShown
       /\ df_map = IF "Bubble Map" \in viz
                   THEN Shown("chart", bubble_map(df), {}) ELSE NotShown
       /\ melt = IF "Source Sunburst" \in viz
                 THEN Shown("chart", sunburst(df, latest), {}) ELSE NotShown

\* A pass with all four panels selected ended with the message shown and
\* the three other charts drawn.
C8_Witness ==
  /\ pc = "done" /\ viz = Panels /\ choices = {}
  /\ radar.shown = "info"
  /\ top10_each.shown = "chart" /\ df_map.shown = "chart" /\ melt.shown = "chart"

\* C9: the bubble map uses exactly the rows with co2 and co2 per capita, and
\* with no negative co2 every bubble_size is 5 + 60 * co2 / M: within
\* [5, 65], 65 for the largest co2 and 5 for a co2 of 0.
C9_BubbleSizeRange ==
  ( /\ pc \in {"radar", "sunburst", "done"} /\ df_map.shown = "chart"
    /\ \A k \in 1..Len(df) : isna(df[k].co2) \/ FLe(Num(0), df[k].co2) )
  => /\ {df_map.data[k].index : k \in 1..Len(df_map.data)}
          = {df[k].index : k \in {j \in 1..Len(df) :
                                    notna(df[j].co2) /\ notna(df[j].co2_per_capita)}}
     /\ LET M == col_max(df_map.data, "co2")
        IN  \A k \in 1..Len(df_map.data) :
              LET r == df_map.data[k]
              IN  /\ FLe(Num(5), r.bubble_size) /\ FLe(r.bubble_size, Num(65))
                  /\ r.co2 = M => r.bubble_size = Num(65)
                  /\ r.co2 = Num(0) => r.bubble_size = Num(5)

=============================================================================
